---- MODULE Spec2Model ----
(***************************************************************************)
(* Model of datalog/comments: the `action` decorator (actions.py), the     *)
(* four registered CommentActions and the three tables of models.py.       *)
(*                                                                         *)
(* Every caller owns one database connection.  A connection's open         *)
(* transaction is the set of its uncommitted writes (tx); `with atomic()`  *)
(* is reentrant: the outermost scope begins and commits the transaction,   *)
(* a nested scope sets a savepoint, releases it on normal exit and rolls   *)
(* back to it when left by an exception.                                   *)
(***************************************************************************)
EXTENDS Integers, Sequences, FiniteSets, TLC

VARIABLES
    db,            \* committed tables DataLog, Comment, CommentView
    tx,            \* per caller: uncommitted writes of the open transaction
    stack,         \* per caller: open scopes (wrapper calls, atomic blocks)
    done,          \* per caller: the last finished wrapper call (history)
    calls,         \* every scope ever opened, with its outcome (history)
    committedMut,  \* ids of calls whose domain writes were committed (history)
    clock,         \* the wall clock read by auto_now_add
    nextUuid,      \* the next value of uuid4()
    faults,        \* statements the storage backend has refused so far
    active         \* the callers that issue calls

vars == <<db, tx, stack, done, calls, committedMut, clock, nextUuid, faults, active>>

----------------------------------------------------------------------------
\* Bounds

\* scopes (wrapper calls and external atomic blocks) opened in one run
MaxCalls == 2
\* nesting depth of scopes on one connection
MaxDepth == 2
\* statements the storage backend refuses in one run
MaxFaults == 1

Callers == {"c1", "c2"}

----------------------------------------------------------------------------
\* Python values passed as arguments

\* a uuid.UUID object
PyUUID(u) == [t |-> "UUID", n |-> u]
\* a str holding the canonical lowercase hyphenated form of uuid u
PyHex(u) == [t |-> "hexstr", n |-> u]
\* any other str
PyText(i) == [t |-> "text", n |-> i]

PyNone == [t |-> "None"]
PyInt(i) == [t |-> "int", n |-> i]
\* QuerySet.delete() returns the pair (rows deleted, rows deleted per model)
PyDeleteResult(i) == [t |-> "tuple", n |-> i]


\* UUIDField.to_python: accepts a UUID or a str in uuid form
IsUuid(v) == v.t \in {"UUID", "hexstr"}
ToUuid(v) == v.n

Arg(k, v) == [k |-> k, v |-> v]
Keys(kwargs) == {kwargs[i].k : i \in DOMAIN kwargs}
Value(kwargs, key) == kwargs[CHOOSE i \in DOMAIN kwargs : kwargs[i].k = key].v

----------------------------------------------------------------------------
\* DjangoJSONEncoder().encode(kwargs) and json.loads

\* DjangoJSONEncoder.default: a UUID is written as str(uuid); a str as itself
JsonValue(v) == IF v.t = "UUID" THEN PyHex(v.n) ELSE v

\* the JSON object text: its members in the order of the keyword arguments
Encode(kwargs) == [i \in DOMAIN kwargs |-> Arg(kwargs[i].k, JsonValue(kwargs[i].v))]

\* json.loads: the dict of the members
Decode(text) == [key \in Keys(text) |-> Value(text, key)]

----------------------------------------------------------------------------
\* Registry

RegisteredActions == {"create_comment", "edit_comment", "delete_comment", "store_comment_view"}

\* a user-defined action whose body invokes registered actions
OuterAction == "outer_action"

Params(op) ==
    CASE op = "create_comment" -> {"target_uuid", "author_uuid", "text"}
      [] op = "edit_comment" -> {"comment_uuid", "text"}
      [] op = "delete_comment" -> {"comment_uuid"}
      [] op = "store_comment_view" -> {"comment_uuid", "viewer_uuid"}
      [] OTHER -> {}

\* (variant) a body declared with **kwargs takes arguments it does not name
BindsExtra(op, kwargs) == Params(op) \subseteq Keys(kwargs)

\* action_func(**kwargs): Python binds the keywords to the parameters
Binds(op, kwargs) == Keys(kwargs) = Params(op)

\* the columns of DataLog
DataLogFields ==
    {"operation_uuid", "operation_name", "source", "source_version", "created_ts", "data"}

CommentFields == {"comment_uuid", "target_uuid", "author_uuid", "text", "created_ts"}

\* Comment.objects.filter(<name>=...): the name must be a field or pk
ResolvesLookup(name) == name \in CommentFields \cup {"pk"}

\* the field a lookup name stands for
LookupField(name) == IF name = "pk" THEN "comment_uuid" ELSE name

----------------------------------------------------------------------------
\* Tables and transactions

EmptyDb == [DataLog |-> {}, Comment |-> {}, CommentView |-> {}]

EmptyTx == [DataLog |-> {}, Comment |-> {}, CommentView |-> {},
            deleted |-> {}, edited |-> << >>, mutated |-> {}]

Edits(t, pk) == {i \in DOMAIN t.edited : t.edited[i].pk = pk}

Max(S) == CHOOSE x \in S : \A y \in S : y <= x

ApplyEdits(row, t) ==
    IF Edits(t, row.comment_uuid) = {} THEN row
    ELSE [row EXCEPT !.text = t.edited[Max(Edits(t, row.comment_uuid))].text]

\* what a connection with uncommitted writes t reads over committed tables d
ViewOf(d, t) ==
    [DataLog |-> d.DataLog \cup t.DataLog,
     Comment |-> {ApplyEdits(r, t) :
                    r \in {x \in d.Comment \cup t.Comment : x.comment_uuid \notin t.deleted}},
     CommentView |-> d.CommentView \cup t.CommentView]

View(c) == ViewOf(db, tx[c])

----------------------------------------------------------------------------
\* The bodies of the registered actions.  A body maps the connection's
\* uncommitted writes t (read over the committed tables d) to the writes after
\* it, the exception it raises ("none" when it returns) and its return value.
\* id is the call the writes belong to; fail is where the storage backend
\* refuses a statement ("none", "first" or "second" statement of the body).

Result(t, exc, ret, clk, uid) ==
    [tx |-> t, exc |-> exc, ret |-> ret, clock |-> clk, nextUuid |-> uid]

NewComment(id, kwargs, clk, uid) ==
    [comment_uuid |-> uid,
     target_uuid |-> ToUuid(Value(kwargs, "target_uuid")),
     author_uuid |-> ToUuid(Value(kwargs, "author_uuid")),
     text |-> Value(kwargs, "text"),
     created_ts |-> clk,
     call |-> id]

NewCommentView(id, comment, viewer, clk, uid) ==
    [view_uuid |-> uid,
     comment_uuid |-> ToUuid(comment),
     viewer_uuid |-> ToUuid(viewer),
     created_ts |-> clk,
     call |-> id]

\* (variant) the author's view is not stored
create_comment_no_view(id, kwargs, d, t, clk, uid, fail) ==
    LET comment == NewComment(id, kwargs, clk, uid)
        t1 == [t EXCEPT !.Comment = @ \cup {comment}, !.mutated = @ \cup {id}]
    IN  IF ~IsUuid(Value(kwargs, "target_uuid")) \/ ~IsUuid(Value(kwargs, "author_uuid"))
        THEN Result(t, "ValidationError", PyNone, clk + 1, uid + 1)
        ELSE IF fail = "first"
        THEN Result(t, "DatabaseError", PyNone, clk + 1, uid + 1)
        ELSE Result(t1, "none", [t |-> "Comment", n |-> comment.comment_uuid],
                    clk + 1, uid + 1)

create_comment(id, kwargs, d, t, clk, uid, fail) ==
    LET comment == NewComment(id, kwargs, clk, uid)
        t1 == [t EXCEPT !.Comment = @ \cup {comment}, !.mutated = @ \cup {id}]
        \* viewer_uuid = comment.author_uuid, the value passed by the caller
        view == NewCommentView(id, PyUUID(comment.comment_uuid),
                               Value(kwargs, "author_uuid"), clk + 1, uid + 1)
        t2 == [t1 EXCEPT !.CommentView = @ \cup {view}]
    IN  IF ~IsUuid(Value(kwargs, "target_uuid")) \/ ~IsUuid(Value(kwargs, "author_uuid"))
        THEN Result(t, "ValidationError", PyNone, clk + 1, uid + 1)
        ELSE IF fail = "first"
        THEN Result(t, "DatabaseError", PyNone, clk + 1, uid + 1)
        ELSE IF fail = "second"
        THEN Result(t1, "DatabaseError", PyNone, clk + 2, uid + 2)
        ELSE Result(t2, "none", [t |-> "Comment", n |-> comment.comment_uuid],
                    clk + 2, uid + 2)

\* the rows Comment.objects.filter(<name>=value) selects
Matching(name, value, d, t) ==
    {r \in ViewOf(d, t).Comment : r[LookupField(name)] = ToUuid(value)}

\* (variant) the filter names another uuid field of Comment
EditLookupTarget == "target_uuid"

\* the keyword of the filter in edit_comment
EditLookup == "uuid"

edit_comment(id, kwargs, d, t, clk, uid, fail) ==
    LET value == Value(kwargs, "comment_uuid")
        rows == Matching(EditLookup, value, d, t)
        pks == {r.comment_uuid : r \in rows}
        order == CHOOSE s \in [1..Cardinality(pks) -> pks] :
                    \A i, j \in DOMAIN s : i # j => s[i] # s[j]
        t1 == [t EXCEPT
                 !.edited = @ \o [i \in DOMAIN order |->
                                    [pk |-> order[i], text |-> Value(kwargs, "text")]],
                 !.mutated = IF rows = {} THEN @ ELSE @ \cup {id}]
        rows_matched == PyInt(Cardinality(rows))
    IN  IF ~ResolvesLookup(EditLookup)
        THEN Result(t, "FieldError", PyNone, clk, uid)
        ELSE IF ~IsUuid(value)
        THEN Result(t, "ValidationError", PyNone, clk, uid)
        ELSE IF fail = "first"
        THEN Result(t, "DatabaseError", PyNone, clk, uid)
        ELSE IF rows_matched # PyInt(1)
        THEN Result(t1, "Exception", PyNone, clk, uid)
        ELSE Result(t1, "none", PyNone, clk, uid)

\* the keyword of the filter in delete_comment
DeleteLookup == "uuid"

\* what delete_comment compares with 1: the value of QuerySet.delete()
DeleteReturn(n) == PyDeleteResult(n)

delete_comment(id, kwargs, d, t, clk, uid, fail) ==
    LET value == Value(kwargs, "comment_uuid")
        rows == Matching(DeleteLookup, value, d, t)
        t1 == [t EXCEPT
                 !.deleted = @ \cup {r.comment_uuid : r \in rows},
                 !.mutated = IF rows = {} THEN @ ELSE @ \cup {id}]
        rows_deleted == DeleteReturn(Cardinality(rows))
    IN  IF ~ResolvesLookup(DeleteLookup)
        THEN Result(t, "FieldError", PyNone, clk, uid)
        ELSE IF ~IsUuid(value)
        THEN Result(t, "ValidationError", PyNone, clk, uid)
        ELSE IF fail = "first"
        THEN Result(t, "DatabaseError", PyNone, clk, uid)
        ELSE IF rows_deleted # PyInt(1)
        THEN Result(t1, "Exception", PyNone, clk, uid)
        ELSE Result(t1, "none", PyNone, clk, uid)

\* (variant) get_or_create: a view that is already stored is returned as it is
store_comment_view_get_or_create(id, kwargs, d, t, clk, uid, fail) ==
    LET view == NewCommentView(id, Value(kwargs, "comment_uuid"),
                               Value(kwargs, "viewer_uuid"), clk, uid)
        t1 == [t EXCEPT !.CommentView = @ \cup {view}, !.mutated = @ \cup {id}]
        same == {v \in ViewOf(d, t).CommentView :
                   /\ v.comment_uuid = view.comment_uuid
                   /\ v.viewer_uuid = view.viewer_uuid}
    IN  IF ~IsUuid(Value(kwargs, "comment_uuid")) \/ ~IsUuid(Value(kwargs, "viewer_uuid"))
        THEN Result(t, "ValidationError", PyNone, clk + 1, uid + 1)
        ELSE IF fail = "first"
        THEN Result(t, "DatabaseError", PyNone, clk + 1, uid + 1)
        ELSE IF same # {}
        THEN Result([t EXCEPT !.mutated = @ \cup {id}], "none",
                    [t |-> "CommentView", n |-> (CHOOSE v \in same : TRUE).view_uuid],
                    clk + 1, uid + 1)
        ELSE Result(t1, "none", [t |-> "CommentView", n |-> view.view_uuid],
                    clk + 1, uid + 1)

\* (variant) the view is stored only for a comment that exists
store_comment_view_checked(id, kwargs, d, t, clk, uid, fail) ==
    LET view == NewCommentView(id, Value(kwargs, "comment_uuid"),
                               Value(kwargs, "viewer_uuid"), clk, uid)
        t1 == [t EXCEPT !.CommentView = @ \cup {view}, !.mutated = @ \cup {id}]
    IN  IF ~IsUuid(Value(kwargs, "comment_uuid")) \/ ~IsUuid(Value(kwargs, "viewer_uuid"))
        THEN Result(t, "ValidationError", PyNone, clk + 1, uid + 1)
        ELSE IF fail = "first"
        THEN Result(t, "DatabaseError", PyNone, clk + 1, uid + 1)
        ELSE IF \A r \in ViewOf(d, t).Comment : r.comment_uuid # view.comment_uuid
        THEN Result(t, "Exception", PyNone, clk + 1, uid + 1)
        ELSE Result(t1, "none", [t |-> "CommentView", n |-> view.view_uuid],
                    clk + 1, uid + 1)

store_comment_view(id, kwargs, d, t, clk, uid, fail) ==
    LET view == NewCommentView(id, Value(kwargs, "comment_uuid"),
                               Value(kwargs, "viewer_uuid"), clk, uid)
        t1 == [t EXCEPT !.CommentView = @ \cup {view}, !.mutated = @ \cup {id}]
    IN  IF ~IsUuid(Value(kwargs, "comment_uuid")) \/ ~IsUuid(Value(kwargs, "viewer_uuid"))
        THEN Result(t, "ValidationError", PyNone, clk + 1, uid + 1)
        ELSE IF fail = "first"
        THEN Result(t, "DatabaseError", PyNone, clk + 1, uid + 1)
        ELSE Result(t1, "none", [t |-> "CommentView", n |-> view.view_uuid],
                    clk + 1, uid + 1)

\* action_func(**kwargs) for a registered action
RunBody(op, id, kwargs, d, t, clk, uid, fail) ==
    IF ~Binds(op, kwargs)
    THEN Result(t, "TypeError", PyNone, clk, uid)
    ELSE CASE op = "create_comment" -> create_comment(id, kwargs, d, t, clk, uid, fail)
           [] op = "edit_comment" -> edit_comment(id, kwargs, d, t, clk, uid, fail)
           [] op = "delete_comment" -> delete_comment(id, kwargs, d, t, clk, uid, fail)
           [] op = "store_comment_view" -> store_comment_view(id, kwargs, d, t, clk, uid, fail)

\* the statements of a body the storage backend can refuse
FailPoints(op) ==
    IF op = "create_comment" THEN {"none", "first", "second"} ELSE {"none", "first"}

----------------------------------------------------------------------------
\* Scopes: `with atomic()` in the wrapper and around a caller's calls

Top(c) == stack[c][Len(stack[c])]
Pop(s) == SubSeq(s, 1, Len(s) - 1)
SetTop(s, f) == [s EXCEPT ![Len(s)] = f]

\* atomic().__enter__: the outermost scope begins the transaction, a nested
\* one sets a savepoint; either way the writes so far are what a rollback of
\* this scope returns to
Savepoint(t) == t

\* (variant) a nested scope that sets no savepoint keeps its writes on failure
ExitTxKeepsWrites(outermost, exc, sp, t) ==
    IF outermost THEN EmptyTx ELSE t

\* (variant) a failure in a nested scope discards the whole transaction
ExitTxAbortsAll(outermost, exc, sp, t) ==
    IF exc # "none" \/ outermost THEN EmptyTx ELSE t

\* atomic().__exit__, the connection's uncommitted writes afterwards
ExitTx(outermost, exc, sp, t) ==
    IF exc # "none" THEN sp
    ELSE IF outermost THEN EmptyTx
    ELSE t

\* (variant) without atomic() every statement is committed as it is made
ExitDbAutocommit(outermost, exc, d, t) ==
    IF outermost THEN ViewOf(d, t) ELSE d

\* (variant) every scope commits on its own when it ends normally
ExitDbCommitNested(outermost, exc, d, t) ==
    IF exc = "none" THEN ViewOf(d, t) ELSE d

\* (variant) the commit writes the transaction's rows over the tables
ExitDbReplaces(outermost, exc, d, t) ==
    IF exc = "none" /\ outermost THEN ViewOf(EmptyDb, t) ELSE d

\* atomic().__exit__, the committed tables afterwards
ExitDb(outermost, exc, d, t) ==
    IF exc = "none" /\ outermost THEN ViewOf(d, t) ELSE d

\* (variant) a context manager whose __exit__ suppresses the exception
ExitExcSuppressed(outermost, exc, commitRefused) ==
    IF exc = "none" /\ outermost /\ commitRefused THEN "DatabaseError" ELSE "none"

\* atomic().__exit__, the exception that leaves the block: the one that entered
\* it, or the storage backend's when it refuses the commit
ExitExc(outermost, exc, commitRefused) ==
    IF exc = "none" /\ outermost /\ commitRefused THEN "DatabaseError" ELSE exc

ExitEvent(outermost, exc) ==
    IF exc # "none"
    THEN (IF outermost THEN "rollback" ELSE "savepoint_rollback")
    ELSE (IF outermost THEN "commit" ELSE "savepoint_release")

\* (variant) a wrapper that goes to the body without DataLog.objects.create
FrameSkipsLog(id, kind, op, kwargs, pc, c) ==
    [id |-> id, kind |-> kind, op |-> op, kwargs |-> kwargs,
     pc |-> IF pc = "log" THEN "body" ELSE pc,
     sp |-> Savepoint(tx[c]), pre |-> db, preView |-> View(c),
     exc |-> "none", ret |-> PyNone, trace |-> <<"atomic_enter">>]

Frame(id, kind, op, kwargs, pc, c) ==
    [id |-> id, kind |-> kind, op |-> op, kwargs |-> kwargs, pc |-> pc,
     sp |-> Savepoint(tx[c]), pre |-> db, preView |-> View(c),
     exc |-> "none", ret |-> PyNone, trace |-> <<"atomic_enter">>]

Scope(c, kind, op, status) ==
    [caller |-> c, kind |-> kind, op |-> op, status |-> status,
     parent |-> IF stack[c] = << >> THEN 0 ELSE Top(c).id]

NoCall ==
    [id |-> 0, op |-> "none", npos |-> 0, kwargs |-> << >>, depth |-> 0,
     status |-> "none", exc |-> "none", ret |-> PyNone,
     pre |-> EmptyDb, preView |-> EmptyDb, post |-> EmptyDb, postView |-> EmptyDb,
     trace |-> << >>]

\* the scope below a finished one goes on, or is left by the exception the
\* finished one raised unless its code catches it
Resume(frames, exc, caught) ==
    IF frames = << >> \/ exc = "none" \/ caught THEN frames
    ELSE SetTop(frames, [frames[Len(frames)] EXCEPT !.exc = exc, !.pc = "exit"])

----------------------------------------------------------------------------
\* What callers pass

KnownComments(c) == {PyUUID(r.comment_uuid) : r \in View(c).Comment}

\* the arguments a caller passes under the parameters' names: uuids as UUID
\* objects or as strings, one string that is no uuid
ValidArgs(c, op) ==
    CASE op = "create_comment" ->
           {<<Arg("target_uuid", PyHex(0)), Arg("author_uuid", PyHex(1)), Arg("text", PyText(1))>>,
            <<Arg("target_uuid", PyUUID(0)), Arg("author_uuid", PyUUID(1)), Arg("text", PyText(2))>>,
            <<Arg("target_uuid", PyText(1)), Arg("author_uuid", PyHex(1)), Arg("text", PyText(1))>>}
      [] op = "edit_comment" ->
           {<<Arg("comment_uuid", a), Arg("text", PyText(2))>> :
              a \in KnownComments(c) \cup {PyUUID(0)}}
      [] op = "delete_comment" ->
           {<<Arg("comment_uuid", a)>> : a \in KnownComments(c) \cup {PyUUID(0)}}
      [] op = "store_comment_view" ->
           {<<Arg("comment_uuid", a), Arg("viewer_uuid", PyHex(1))>> :
              a \in KnownComments(c) \cup {PyUUID(0)}}
      [] OTHER -> {<< >>}

\* a required argument left out, or an argument the action does not have
BadShapes(c, op) ==
    LET v == CHOOSE k \in ValidArgs(c, op) : TRUE
    IN  CASE op \in {"create_comment", "delete_comment"} -> {SubSeq(v, 1, Len(v) - 1)}
          [] op \in {"edit_comment", "store_comment_view"} -> {Append(v, Arg("extra", PyText(1)))}
          [] OTHER -> {}

\* the actions a caller also calls in positional form
PositionalCalls == RegisteredActions

CallArgs(c, op) == ValidArgs(c, op) \cup BadShapes(c, op)

----------------------------------------------------------------------------
\* Steps

Init ==
    /\ db = EmptyDb
    /\ tx = [c \in Callers |-> EmptyTx]
    /\ stack = [c \in Callers |-> << >>]
    /\ done = [c \in Callers |-> NoCall]
    /\ calls = << >>
    /\ committedMut = {}
    /\ clock = 1
    /\ nextUuid = 10
    /\ faults = 0
    /\ active = {"c1"}

CanOpen(c) ==
    /\ c \in active
    /\ Len(calls) < MaxCalls
    /\ \/ stack[c] = << >>
       \/ stack[c] # << >> /\ Len(stack[c]) < MaxDepth /\ Top(c).pc = "script"

\* the caller opens an external transaction around its calls
EnterAtomic(c) ==
    /\ CanOpen(c)
    /\ stack[c] = << >>
    /\ stack' = [stack EXCEPT ![c] =
                   Append(@, Frame(Len(calls) + 1, "atomic", "atomic", << >>, "script", c))]
    /\ calls' = Append(calls, Scope(c, "atomic", "atomic", "running"))
    /\ UNCHANGED <<db, tx, done, committedMut, clock, nextUuid, faults, active>>

\* wrapper(**kwargs) is called with npos positional and the keyword arguments
\* kwargs: positional arguments are a TypeError of the call itself; otherwise
\* the wrapper enters atomic()
Call(c, op, npos, kwargs) ==
    /\ CanOpen(c)
    /\ op = OuterAction => Len(stack[c]) + 1 < MaxDepth
    /\ IF npos > 0
       THEN /\ \E caught \in BOOLEAN :
                 stack' = [stack EXCEPT ![c] = Resume(@, "TypeError", caught)]
            /\ calls' = Append(calls, Scope(c, "action", op, "raised"))
            /\ done' = [done EXCEPT ![c] =
                          [id |-> Len(calls) + 1, op |-> op, npos |-> npos,
                           kwargs |-> kwargs, depth |-> Len(stack[c]) + 1,
                           status |-> "raised", exc |-> "TypeError", ret |-> PyNone,
                           pre |-> db, preView |-> View(c),
                           post |-> db, postView |-> View(c), trace |-> << >>]]
       ELSE /\ stack' = [stack EXCEPT ![c] =
                           Append(@, Frame(Len(calls) + 1, "action", op, kwargs, "log", c))]
            /\ calls' = Append(calls, Scope(c, "action", op, "running"))
            /\ done' = done
    /\ UNCHANGED <<db, tx, committedMut, clock, nextUuid, faults, active>>

\* (variant) without functools.wraps' source the name is the wrapper's
NewDataLogWrapperName(f, clk, uid) ==
    [operation_uuid |-> uid,
     operation_name |-> "wrapper",
     source |-> "",
     source_version |-> "",
     created_ts |-> clk,
     data |-> Encode(f.kwargs),
     call |-> f.id]

\* (variant) created_ts without auto_now_add is not the time of the insert
NewDataLogNoTimestamp(f, clk, uid) ==
    [operation_uuid |-> uid,
     operation_name |-> f.op,
     source |-> "",
     source_version |-> "",
     created_ts |-> 0,
     data |-> Encode(f.kwargs),
     call |-> f.id]

\* DataLog.objects.create(operation_name=action_func.__name__, data=...)
NewDataLog(f, clk, uid) ==
    [operation_uuid |-> uid,
     operation_name |-> f.op,
     source |-> "",
     source_version |-> "",
     created_ts |-> clk,
     data |-> Encode(f.kwargs),
     call |-> f.id]

LogInsert(c) ==
    /\ c \in active
    /\ stack[c] # << >>
    /\ Top(c).kind = "action"
    /\ Top(c).pc = "log"
    /\ \E refused \in {FALSE} \cup {faults < MaxFaults} :
         IF refused
         THEN /\ stack' = [stack EXCEPT ![c] =
                             SetTop(@, [Top(c) EXCEPT !.exc = "DatabaseError", !.pc = "exit"])]
              /\ tx' = tx
              /\ faults' = faults + 1
         ELSE /\ stack' = [stack EXCEPT ![c] =
                             SetTop(@, [Top(c) EXCEPT !.pc = "body",
                                                      !.trace = Append(@, "log_insert")])]
              /\ tx' = [tx EXCEPT ![c].DataLog = @ \cup {NewDataLog(Top(c), clock, nextUuid)}]
              /\ faults' = faults
    /\ clock' = clock + 1
    /\ nextUuid' = nextUuid + 1
    /\ UNCHANGED <<db, done, calls, committedMut, active>>

\* return action_func(**kwargs)
InvokeBody(c) ==
    /\ c \in active
    /\ stack[c] # << >>
    /\ Top(c).kind = "action"
    /\ Top(c).pc = "body"
    /\ IF Top(c).op = OuterAction
       THEN /\ stack' = [stack EXCEPT ![c] =
                           SetTop(@, [Top(c) EXCEPT !.pc = "script",
                                                    !.trace = Append(@, "body")])]
            /\ UNCHANGED <<tx, clock, nextUuid, faults>>
       ELSE \E fail \in (IF faults < MaxFaults THEN FailPoints(Top(c).op) ELSE {"none"}) :
              LET f == Top(c)
                  r == RunBody(f.op, f.id, f.kwargs, db, tx[c], clock, nextUuid, fail)
              IN  /\ stack' = [stack EXCEPT ![c] =
                                 SetTop(@, [f EXCEPT !.pc = "exit", !.exc = r.exc,
                                                     !.ret = r.ret,
                                                     !.trace = Append(@, "body")])]
                  /\ tx' = [tx EXCEPT ![c] = r.tx]
                  /\ clock' = r.clock
                  /\ nextUuid' = r.nextUuid
                  /\ faults' = IF r.exc = "DatabaseError" THEN faults + 1 ELSE faults
    /\ UNCHANGED <<db, done, calls, committedMut, active>>

\* the code that runs inside an external atomic block or inside the body of an
\* action that invokes other actions comes to its end, or raises
ScriptEnd(c) ==
    /\ c \in active
    /\ stack[c] # << >>
    /\ Top(c).pc = "script"
    /\ \E raises \in BOOLEAN :
         stack' = [stack EXCEPT ![c] =
                     SetTop(@, [Top(c) EXCEPT !.pc = "exit",
                                              !.exc = IF raises THEN "Exception" ELSE "none"])]
    /\ UNCHANGED <<db, tx, done, calls, committedMut, clock, nextUuid, faults, active>>

\* atomic().__exit__: commit or release the savepoint when the block ended
\* normally, roll back (to the savepoint) when an exception leaves it
AtomicExit(c) ==
    /\ c \in active
    /\ stack[c] # << >>
    /\ Top(c).pc = "exit"
    /\ \E commitRefused \in {FALSE} \cup {faults < MaxFaults}, caught \in BOOLEAN :
         LET f == Top(c)
             outermost == Len(stack[c]) = 1
             exc == ExitExc(outermost, f.exc, commitRefused)
             db2 == ExitDb(outermost, exc, db, tx[c])
             tx2 == ExitTx(outermost, exc, f.sp, tx[c])
         IN  /\ db' = db2
             /\ tx' = [tx EXCEPT ![c] = tx2]
             /\ committedMut' = IF outermost /\ exc = "none"
                                THEN committedMut \cup tx[c].mutated ELSE committedMut
             /\ stack' = [stack EXCEPT ![c] = Resume(Pop(@), exc, caught)]
             /\ calls' = [calls EXCEPT ![f.id].status =
                            IF exc = "none" THEN "returned" ELSE "raised"]
             /\ done' = IF f.kind # "action" THEN done
                        ELSE [done EXCEPT ![c] =
                                [id |-> f.id, op |-> f.op, npos |-> 0, kwargs |-> f.kwargs,
                                 depth |-> Len(stack[c]),
                                 status |-> IF exc = "none" THEN "returned" ELSE "raised",
                                 exc |-> exc,
                                 ret |-> IF exc = "none" THEN f.ret ELSE PyNone,
                                 pre |-> f.pre, preView |-> f.preView,
                                 post |-> db2, postView |-> ViewOf(db2, tx2),
                                 trace |-> Append(f.trace, ExitEvent(outermost, exc))]]
             /\ faults' = IF exc # f.exc THEN faults + 1 ELSE faults
    /\ UNCHANGED <<clock, nextUuid, active>>

CallStep(c) ==
    \E op \in RegisteredActions \cup {OuterAction} :
      \/ \E kwargs \in CallArgs(c, op) : Call(c, op, 0, kwargs)
      \/ op \in PositionalCalls /\ Call(c, op, 1, << >>)

Next ==
    \/ \E c \in Callers : EnterAtomic(c)
    \/ \E c \in Callers : CallStep(c)
    \/ \E c \in Callers : LogInsert(c)
    \/ \E c \in Callers : InvokeBody(c)
    \/ \E c \in Callers : ScriptEnd(c)
    \/ \E c \in Callers : AtomicExit(c)

Spec == Init /\ [][Next]_vars

\* two callers, each on its own connection, issue calls concurrently
InitConc ==
    /\ db = EmptyDb
    /\ tx = [c \in Callers |-> EmptyTx]
    /\ stack = [c \in Callers |-> << >>]
    /\ done = [c \in Callers |-> NoCall]
    /\ calls = << >>
    /\ committedMut = {}
    /\ clock = 1
    /\ nextUuid = 10
    /\ faults = 0
    /\ active = Callers

\* the actions called concurrently: the two that insert and one that selects
\* rows of Comment
ConcurrentActions == {"create_comment", "store_comment_view", "delete_comment"}

\* their arguments: create_comment is passed its uuids as strings, as in the
\* tests
ConcurrentArgs(c, op) ==
    {kwargs \in ValidArgs(c, op) :
       op = "create_comment" => \A i \in DOMAIN kwargs : kwargs[i].v.t # "UUID"}

\* a caller with no open scope calls an action by keywords
TopLevelCall(c) ==
    /\ stack[c] = << >>
    /\ \E op \in ConcurrentActions :
         \E kwargs \in ConcurrentArgs(c, op) : Call(c, op, 0, kwargs)

\* the calls of the callers, interleaved step by step
NextConc ==
    \/ \E c \in Callers : TopLevelCall(c)
    \/ \E c \in Callers : LogInsert(c)
    \/ \E c \in Callers : InvokeBody(c)
    \/ \E c \in Callers : AtomicExit(c)

SpecConc == InitConc /\ [][NextConc]_vars

----------------------------------------------------------------------------
\* Properties

InTrace(d, e) == \E i \in DOMAIN d.trace : d.trace[i] = e

\* the rows a finished call added to a table, as its connection sees them
Added(d, table) == d.postView[table] \ d.preView[table]

\* the uuid argument of a finished call selects these rows of the Comment table
Matched(d) ==
    IF "comment_uuid" \in Keys(d.kwargs) /\ IsUuid(Value(d.kwargs, "comment_uuid"))
    THEN {r \in d.preView.Comment : r.comment_uuid = ToUuid(Value(d.kwargs, "comment_uuid"))}
    ELSE {}

RECURSIVE FullyCommitted(_)
\* the call returned normally and so did every scope around it
FullyCommitted(k) ==
    /\ calls[k].status = "returned"
    /\ calls[k].parent # 0 => FullyCommitted(calls[k].parent)

RECURSIVE EnclosingFailed(_)
\* some scope around the call was left by an exception
EnclosingFailed(k) ==
    /\ calls[k].parent # 0
    /\ \/ calls[calls[k].parent].status = "raised"
       \/ EnclosingFailed(calls[k].parent)

\* the rows of call k that a reader of tables v sees
RowsOf(k, v) == {r \in v.DataLog \cup v.Comment \cup v.CommentView : r.call = k}

\* C1: when the body of an action fails during a call, the tables after the
\* call are what they were before it: the committed tables, and the tables as
\* the calling connection reads them (no LogRecord of the call, no partial
\* domain write).
C1_FailedBodyLeavesNothing ==
    \A c \in Callers :
      (done[c].op \in RegisteredActions /\ done[c].status = "raised" /\ InTrace(done[c], "body"))
        => /\ done[c].post = done[c].pre
           /\ done[c].postView = done[c].preView

\* create_comment was refused by the storage backend inside its body, with
\* rows committed earlier
C1_Witness ==
    \E c \in Callers :
      /\ done[c].op = "create_comment" /\ done[c].status = "raised"
      /\ done[c].exc = "DatabaseError" /\ InTrace(done[c], "body")
      /\ done[c].pre.Comment # {}

\* C2: in every committed state the calls that have a LogRecord are exactly
\* the action calls that fully committed, and the calls of registered actions
\* whose domain writes are committed are exactly those too.
C2_LogIffCommitted ==
    LET ok == {k \in DOMAIN calls : calls[k].kind = "action" /\ FullyCommitted(k)}
    IN  /\ {r.call : r \in db.DataLog} = ok
        /\ committedMut = {k \in ok : calls[k].op \in RegisteredActions}
        /\ {r.call : r \in db.Comment \cup db.CommentView} \subseteq ok
        /\ \A k \in ok : Cardinality({r \in db.DataLog : r.call = k}) = 1

\* one call committed and one failed
C2_Witness ==
    /\ db.DataLog # {}
    /\ \E k \in DOMAIN calls :
         /\ calls[k].kind = "action" /\ calls[k].status = "raised"
         /\ \E c \in Callers : done[c].id = k /\ InTrace(done[c], "log_insert")

\* what the caller's argument mapping decodes to: uuids as canonical strings
CanonicalStr(v) == IF v.t = "UUID" THEN [t |-> "hexstr", n |-> v.n] ELSE v
ArgMapping(kwargs) == [key \in Keys(kwargs) |-> CanonicalStr(Value(kwargs, key))]

\* C3: a successful call of a registered action adds exactly one LogRecord;
\* its operation_name is the name of the action and its decoded data is the
\* argument mapping of the call, uuids as canonical strings.
C3_LogFidelity ==
    \A c \in Callers :
      (done[c].op \in RegisteredActions /\ done[c].status = "returned")
        => /\ Cardinality(Added(done[c], "DataLog")) = 1
           /\ \A r \in Added(done[c], "DataLog") :
                /\ r.operation_name = done[c].op
                /\ Decode(r.data) = ArgMapping(done[c].kwargs)

\* a successful call that was passed a UUID object
C3_Witness ==
    \E c \in Callers :
      /\ done[c].op \in RegisteredActions /\ done[c].status = "returned"
      /\ \E i \in DOMAIN done[c].kwargs : done[c].kwargs[i].v.t = "UUID"

\* the sequences DataLog.objects.order_by("created_ts") can yield
OrderByCreatedTs(S) ==
    {s \in [1..Cardinality(S) -> S] :
       /\ \A i, j \in DOMAIN s : i # j => s[i] # s[j]
       /\ \A i, j \in DOMAIN s : i < j => s[i].created_ts <= s[j].created_ts}

\* C4: the LogRecords sorted by created_ts are in call order; two records are
\* those of create_comment followed by store_comment_view when these were the
\* calls.
C4_LogsInCallOrder ==
    \A logs \in OrderByCreatedTs(db.DataLog) :
      \A i, j \in DOMAIN logs : i < j => logs[i].call < logs[j].call

\* create_comment then store_comment_view: two LogRecords, in this order
C4_Witness ==
    \E logs \in OrderByCreatedTs(db.DataLog) :
      /\ Len(logs) = 2
      /\ logs[1].operation_name = "create_comment"
      /\ logs[2].operation_name = "store_comment_view"
      /\ logs[1].call < logs[2].call

\* the storage backend refused no statement of the finished call
NotRefused(d) == d.exc # "DatabaseError"

\* C5: edit_comment(comment_uuid, text) with exactly one Comment of that
\* comment_uuid returns None, sets the text of that Comment and adds one
\* edit_comment LogRecord.
C5_EditSucceeds ==
    \A c \in Callers :
      (/\ done[c].op = "edit_comment" /\ done[c].npos = 0
       /\ Binds("edit_comment", done[c].kwargs)
       /\ Cardinality(Matched(done[c])) = 1
       /\ NotRefused(done[c]))
        => /\ done[c].status = "returned"
           /\ done[c].ret = PyNone
           /\ \A r \in Matched(done[c]) :
                [r EXCEPT !.text = Value(done[c].kwargs, "text")] \in done[c].postView.Comment
           /\ Cardinality(Added(done[c], "DataLog")) = 1

\* C6: delete_comment(comment_uuid) on an existing comment returns None and
\* removes exactly that Comment; on a comment_uuid that matches no row it
\* fails.
C6_DeleteSucceeds ==
    \A c \in Callers :
      (/\ done[c].op = "delete_comment" /\ done[c].npos = 0
       /\ Binds("delete_comment", done[c].kwargs)
       /\ NotRefused(done[c]))
        => IF Cardinality(Matched(done[c])) = 1
           THEN /\ done[c].status = "returned"
                /\ done[c].ret = PyNone
                /\ done[c].postView.Comment = done[c].preView.Comment \ Matched(done[c])
           ELSE done[c].status = "raised"

\* C7: edit_comment or delete_comment with a comment_uuid that matches no
\* Comment fails, and the DataLog, Comment and CommentView tables are what
\* they were before the call.
C7_NoMatchFails ==
    \A c \in Callers :
      (/\ done[c].op \in {"edit_comment", "delete_comment"} /\ done[c].npos = 0
       /\ Binds(done[c].op, done[c].kwargs)
       /\ Matched(done[c]) = {})
        => /\ done[c].status = "raised"
           /\ done[c].post = done[c].pre
           /\ done[c].postView = done[c].preView

\* edit_comment missed every row of a table that has rows, after its
\* LogRecord was inserted
C7_Witness ==
    \E c \in Callers :
      /\ done[c].op = "edit_comment" /\ done[c].npos = 0
      /\ Binds(done[c].op, done[c].kwargs)
      /\ Matched(done[c]) = {}
      /\ done[c].pre.Comment # {} /\ done[c].pre.DataLog # {}
      /\ InTrace(done[c], "log_insert") /\ InTrace(done[c], "body")

\* C8: a successful create_comment adds one Comment with the three fields
\* passed and a comment_uuid no Comment had, one CommentView of that comment
\* whose viewer is the author, and one create_comment LogRecord, and returns
\* the Comment.
C8_CreateComment ==
    \A c \in Callers :
      (done[c].op = "create_comment" /\ done[c].status = "returned")
        => /\ Cardinality(Added(done[c], "Comment")) = 1
           /\ Cardinality(Added(done[c], "CommentView")) = 1
           /\ Cardinality(Added(done[c], "DataLog")) = 1
           /\ \A r \in Added(done[c], "Comment") :
                /\ r.target_uuid = ToUuid(Value(done[c].kwargs, "target_uuid"))
                /\ r.author_uuid = ToUuid(Value(done[c].kwargs, "author_uuid"))
                /\ r.text = Value(done[c].kwargs, "text")
                /\ \A o \in done[c].preView.Comment : o.comment_uuid # r.comment_uuid
                /\ done[c].ret = [t |-> "Comment", n |-> r.comment_uuid]
                /\ \A v \in Added(done[c], "CommentView") :
                     /\ v.comment_uuid = r.comment_uuid
                     /\ v.viewer_uuid = r.author_uuid
           /\ \A l \in Added(done[c], "DataLog") : l.operation_name = "create_comment"

\* a second comment was created
C8_Witness ==
    \E c \in Callers :
      /\ done[c].op = "create_comment" /\ done[c].status = "returned"
      /\ done[c].preView.Comment # {}
      /\ Cardinality(done[c].postView.CommentView) = 2

\* the arguments of the call do not have the shape of the action's parameters
WrongShape(op, npos, kwargs) == npos > 0 \/ Keys(kwargs) # Params(op)

\* C9 as stated: a call with positional arguments, an unrecognized argument
\* name or a missing required argument opens no transaction and inserts no
\* LogRecord, not even one that is rolled back.
C9_RejectedBeforeLog ==
    /\ \A c \in Callers :
         (done[c].op \in RegisteredActions
          /\ WrongShape(done[c].op, done[c].npos, done[c].kwargs))
           => ~InTrace(done[c], "atomic_enter") /\ ~InTrace(done[c], "log_insert")
    /\ \A c \in Callers : \A i \in DOMAIN stack[c] :
         (stack[c][i].op \in RegisteredActions
          /\ WrongShape(stack[c][i].op, 0, stack[c][i].kwargs))
           => ~InTrace(stack[c][i], "log_insert")

\* C9 amended: a call with positional arguments is rejected before a
\* transaction is opened or a LogRecord inserted.  A call with an unrecognized
\* or a missing named argument fails too, but only when the body is invoked,
\* after its LogRecord was inserted inside the transaction; the insert is
\* rolled back, the tables are what they were, and every committed LogRecord
\* carries exactly the parameters of its action.
C9_RejectedOrRolledBack ==
    /\ \A c \in Callers :
         (done[c].op \in RegisteredActions /\ done[c].npos > 0)
           => /\ done[c].trace = << >>
              /\ done[c].status = "raised"
              /\ done[c].post = done[c].pre /\ done[c].postView = done[c].preView
    /\ \A c \in Callers :
         (done[c].op \in RegisteredActions /\ done[c].npos = 0
          /\ ~Binds(done[c].op, done[c].kwargs))
           => /\ done[c].status = "raised"
              /\ InTrace(done[c], "atomic_enter")
              /\ NotRefused(done[c])
                   => /\ done[c].exc = "TypeError"
                      /\ InTrace(done[c], "log_insert") /\ InTrace(done[c], "body")
              /\ done[c].post = done[c].pre /\ done[c].postView = done[c].preView
    /\ \A r \in db.DataLog :
         r.operation_name \in RegisteredActions
           => Keys(r.data) = Params(r.operation_name)

\* store_comment_view was called with an argument it does not have, after a
\* call that committed
C9_Witness ==
    \E c \in Callers :
      /\ done[c].op = "store_comment_view" /\ done[c].npos = 0
      /\ ~Binds(done[c].op, done[c].kwargs)
      /\ done[c].exc = "TypeError"
      /\ InTrace(done[c], "log_insert")
      /\ db.DataLog # {}

\* C10: when an action that ran inside another scope (the body of an action,
\* or a caller's atomic block) returned normally and a scope around it is then
\* left by an exception, no row of the inner call and no row of the failed
\* scope is committed or left in the connection's transaction.
C10_NestedRolledBackWithOuter ==
    \A k \in DOMAIN calls :
      (calls[k].kind = "action" /\ calls[k].status = "returned" /\ EnclosingFailed(k))
        => /\ RowsOf(k, db) = {}
           /\ RowsOf(k, View(calls[k].caller)) = {}
           /\ RowsOf(calls[k].parent, db) = {}
           /\ RowsOf(calls[k].parent, View(calls[k].caller)) = {}
           /\ k \notin committedMut

\* a registered action returned inside the body of an action that then failed
C10_Witness ==
    \E k \in DOMAIN calls :
      /\ calls[k].op \in {"create_comment", "store_comment_view"}
      /\ calls[k].status = "returned"
      /\ calls[k].parent # 0
      /\ calls[calls[k].parent].op = OuterAction
      /\ calls[calls[k].parent].status = "raised"

\* C11: DataLog and CommentView only grow from one committed state to the
\* next: every row committed earlier is still there, unchanged, whatever
\* action (delete_comment and edit_comment included) ran in between.
C11_AppendOnly ==
    [][/\ db.DataLog \subseteq db'.DataLog
       /\ db.CommentView \subseteq db'.CommentView]_vars

\* delete_comment finished on a comment that has a committed view and
\* LogRecord, and these are still there
C11_Witness ==
    \E c \in Callers :
      /\ done[c].op = "delete_comment" /\ done[c].npos = 0
      /\ Matched(done[c]) # {}
      /\ \A r \in Matched(done[c]) :
           /\ \E v \in db.CommentView : v.comment_uuid = r.comment_uuid
           /\ \E l \in db.DataLog : l.call = r.call

\* C12: a call of a registered action leaves comment_uuid, target_uuid,
\* author_uuid and created_ts of every Comment that stays as they were; a text
\* changes only in edit_comment, and only on the Comment whose comment_uuid was
\* passed.
C12_CommentFrame ==
    \A c \in Callers :
      done[c].op \in RegisteredActions
        => \A r \in done[c].preView.Comment : \A q \in done[c].postView.Comment :
             r.comment_uuid = q.comment_uuid
               => /\ q.target_uuid = r.target_uuid
                  /\ q.author_uuid = r.author_uuid
                  /\ q.created_ts = r.created_ts
                  /\ q.text # r.text
                       => /\ done[c].op = "edit_comment"
                          /\ r \in Matched(done[c])

\* edit_comment finished with a uuid that is the target of a comment and not
\* the comment_uuid of any
C12_Witness ==
    \E c \in Callers :
      /\ done[c].op = "edit_comment" /\ done[c].npos = 0
      /\ Binds(done[c].op, done[c].kwargs)
      /\ Matched(done[c]) = {}
      /\ \E r \in done[c].postView.Comment :
           r.target_uuid = ToUuid(Value(done[c].kwargs, "comment_uuid"))

\* the number of times the body was invoked in a finished call
BodyRuns(d) == Cardinality({i \in DOMAIN d.trace : d.trace[i] = "body"})

\* C13: when the LogRecord insert or the body of a wrapped call has raised,
\* the call ends raising that same exception and returns nothing, and the body
\* was invoked at most once.
C13_FailurePropagates ==
    [][\A c \in Callers :
         (/\ stack[c] # << >>
          /\ stack'[c] # stack[c]
          /\ Top(c).kind = "action"
          /\ Top(c).pc = "exit"
          /\ Top(c).exc # "none")
           => /\ done'[c].id = Top(c).id
              /\ done'[c].status = "raised"
              /\ done'[c].exc = Top(c).exc
              /\ done'[c].ret = PyNone
              /\ BodyRuns(done'[c]) <= 1
              /\ BodyRuns(done'[c]) = BodyRuns(Top(c))]_vars

\* delete_comment ended with the FieldError its body raised
C13_Witness ==
    \E c \in Callers :
      /\ done[c].op = "delete_comment" /\ done[c].status = "raised"
      /\ done[c].exc = "FieldError"
      /\ BodyRuns(done[c]) = 1

\* the finished call repeats an earlier successful call: same action, same
\* arguments
Repeated(d) ==
    \E l \in d.preView.DataLog :
      l.operation_name = d.op /\ l.data = Encode(d.kwargs)

\* C14 as stated: store_comment_view and create_comment are idempotent; a
\* successful call repeated with the same arguments leaves the Comment and
\* CommentView tables as they were after the first.
C14_Idempotent ==
    \A c \in Callers :
      (/\ done[c].op \in {"store_comment_view", "create_comment"}
       /\ done[c].status = "returned"
       /\ Repeated(done[c]))
        => /\ done[c].postView.Comment = done[c].preView.Comment
           /\ done[c].postView.CommentView = done[c].preView.CommentView

\* C14 amended: store_comment_view and create_comment are not idempotent.
\* Every successful call, a repetition of an earlier one included, adds one
\* more CommentView row (and create_comment one more Comment) under a fresh
\* key and keeps the rows that were there.
C14_RepetitionAppends ==
    \A c \in Callers :
      (/\ done[c].op \in {"store_comment_view", "create_comment"}
       /\ done[c].status = "returned"
       /\ Repeated(done[c]))
        => /\ Cardinality(Added(done[c], "CommentView")) = 1
           /\ done[c].preView.CommentView \subseteq done[c].postView.CommentView
           /\ done[c].preView.Comment \subseteq done[c].postView.Comment
           /\ Cardinality(Added(done[c], "Comment")) =
                IF done[c].op = "create_comment" THEN 1 ELSE 0
           /\ \A v \in Added(done[c], "CommentView") :
                \A o \in done[c].preView.CommentView : o.view_uuid # v.view_uuid

\* store_comment_view succeeded a second time with the same arguments
C14_Witness ==
    \E c \in Callers :
      /\ done[c].op = "store_comment_view"
      /\ done[c].status = "returned"
      /\ Repeated(done[c])

\* C15 as stated: when an action invoked inside the body of another action
\* fails, the outermost scope is rolled back in full whatever the outer body
\* does with the failure: no LogRecord and no write of the outer action
\* persists.
C15_InnerFailureAbortsOuter ==
    \A k \in DOMAIN calls :
      (/\ calls[k].kind = "action" /\ calls[k].status = "raised"
       /\ calls[k].parent # 0
       /\ calls[calls[k].parent].kind = "action"
       /\ calls[calls[k].parent].status # "running")
        => /\ calls[calls[k].parent].status = "raised"
           /\ RowsOf(calls[k].parent, db) = {}

\* C15 amended: a failing inner action is rolled back to its own savepoint
\* (its LogRecord and writes are gone) and its exception is passed to the
\* outer body.  The outer scope is rolled back when the outer body lets the
\* exception through or fails itself; when the outer body catches it and ends
\* normally, the outer action commits and its LogRecord persists.
C15_InnerFailureRollsBackInner ==
    \A k \in DOMAIN calls :
      (calls[k].kind = "action" /\ calls[k].status = "raised" /\ calls[k].parent # 0)
        => LET p == calls[k].parent
               v == View(calls[k].caller)
           IN  /\ RowsOf(k, db) = {}
               /\ RowsOf(k, v) = {}
               /\ calls[p].status = "raised"
                    => RowsOf(p, db) = {} /\ RowsOf(p, v) = {}
               /\ (calls[p].status = "returned" /\ calls[p].kind = "action"
                   /\ calls[p].parent = 0)
                    => Cardinality({r \in db.DataLog : r.call = p}) = 1

\* the body of an action caught the failure of the action it invoked, after
\* that action's LogRecord was inserted, and the outer action committed
C15_Witness ==
    \E k \in DOMAIN calls :
      /\ calls[k].kind = "action" /\ calls[k].status = "raised"
      /\ calls[k].parent # 0
      /\ calls[calls[k].parent].op = OuterAction
      /\ calls[calls[k].parent].status = "returned"
      /\ RowsOf(calls[k].parent, db) # {}
      /\ \E c \in Callers : done[c].id = calls[k].parent

RECURSIVE Within(_, _)
\* scope j was opened, directly or not, inside scope k
Within(j, k) ==
    /\ calls[j].parent # 0
    /\ \/ calls[j].parent = k
       \/ Within(calls[j].parent, k)

\* the action calls made, directly or not, while call k ran
Invoked(k) == {j \in DOMAIN calls : calls[j].kind = "action" /\ Within(j, k)}

\* C16: when the body of an action invoked one other action and both returned
\* normally, two LogRecords were added: the outer action's, with its name and
\* arguments, inserted first, and the inner action's, with its name; a
\* LogRecord has the columns of DataLog and none that refers to another
\* LogRecord.
C16_TwoUnlinkedRecords ==
    \A c \in Callers :
      (/\ done[c].op = OuterAction /\ done[c].status = "returned"
       /\ Cardinality(Invoked(done[c].id)) = 1
       /\ \A j \in DOMAIN calls : Within(j, done[c].id) => calls[j].status = "returned")
        => LET new == Added(done[c], "DataLog")
               outer == {r \in new : r.call = done[c].id}
               inner == {r \in new : r.call \in Invoked(done[c].id)}
           IN  /\ Cardinality(new) = 2
               /\ Cardinality(outer) = 1 /\ Cardinality(inner) = 1
               /\ \A o \in outer :
                    /\ o.operation_name = OuterAction
                    /\ Decode(o.data) = ArgMapping(done[c].kwargs)
                    /\ \A i \in inner :
                         /\ i.operation_name = calls[i.call].op
                         /\ o.created_ts < i.created_ts
                         /\ o.operation_uuid # i.operation_uuid
               /\ \A r \in new : DOMAIN r \ {"call"} = DataLogFields

\* create_comment returned inside the body of an action that returned
C16_Witness ==
    \E c \in Callers :
      /\ done[c].op = OuterAction /\ done[c].status = "returned"
      /\ Cardinality(Invoked(done[c].id)) = 1
      /\ \A j \in Invoked(done[c].id) :
           calls[j].status = "returned" /\ calls[j].op = "create_comment"

\* the events of a wrapped call, in the order of the wrapper's code
WrapperTraces ==
    {<<"atomic_enter", "log_insert", "body", e>> :
        e \in {"commit", "rollback", "savepoint_release", "savepoint_rollback"}}
      \cup {<<"atomic_enter", e>> : e \in {"rollback", "savepoint_rollback"}}

\* C17: in every wrapped call the scope is opened first, then the LogRecord
\* is inserted, then the body is invoked with the arguments of the call, then
\* the scope commits or rolls back; the call has no row before its LogRecord
\* insert, only its LogRecord before the body, and no domain row without the
\* LogRecord while the scope is open.
C17_StepOrder ==
    /\ \A c \in Callers :
         (done[c].id # 0 /\ done[c].npos = 0) => done[c].trace \in WrapperTraces
    /\ \A c \in Callers : \A i \in DOMAIN stack[c] :
         LET f == stack[c][i]
             rows == RowsOf(f.id, View(c))
         IN  f.kind = "action"
               => /\ f.pc = "log" => f.trace = <<"atomic_enter">> /\ rows = {}
                  /\ f.pc = "body"
                       => /\ f.trace = <<"atomic_enter", "log_insert">>
                          /\ rows \subseteq tx[c].DataLog
                          /\ Cardinality(rows) = 1
                          /\ \A r \in rows : r.data = Encode(f.kwargs)
                  /\ rows \ tx[c].DataLog # {}
                       => /\ f.trace = <<"atomic_enter", "log_insert", "body">>
                          /\ Cardinality(rows \cap tx[c].DataLog) = 1
                  /\ RowsOf(f.id, db) = {}

\* store_comment_view has run its body inside the open scope: its LogRecord and
\* its CommentView are in the transaction, nothing of it is committed
C17_Witness ==
    \E c \in Callers :
      /\ stack[c] # << >>
      /\ Top(c).op = "store_comment_view" /\ Top(c).pc = "exit"
      /\ Cardinality(RowsOf(Top(c).id, View(c))) = 2
      /\ db.DataLog # {}

\* C18: store_comment_view(comment_uuid, viewer_uuid) does not look the
\* comment up: for every comment_uuid, of a Comment or of none, it returns,
\* adds one CommentView with that comment_uuid and viewer_uuid and one
\* store_comment_view LogRecord, and leaves the Comment table as it was.
C18_StoreViewNoExistenceCheck ==
    \A c \in Callers :
      (/\ done[c].op = "store_comment_view" /\ done[c].npos = 0
       /\ Binds(done[c].op, done[c].kwargs)
       /\ IsUuid(Value(done[c].kwargs, "comment_uuid"))
       /\ IsUuid(Value(done[c].kwargs, "viewer_uuid"))
       /\ NotRefused(done[c]))
        => /\ done[c].status = "returned"
           /\ Cardinality(Added(done[c], "CommentView")) = 1
           /\ \A v \in Added(done[c], "CommentView") :
                /\ v.comment_uuid = ToUuid(Value(done[c].kwargs, "comment_uuid"))
                /\ v.viewer_uuid = ToUuid(Value(done[c].kwargs, "viewer_uuid"))
                /\ done[c].ret = [t |-> "CommentView", n |-> v.view_uuid]
           /\ Cardinality(Added(done[c], "DataLog")) = 1
           /\ \A l \in Added(done[c], "DataLog") : l.operation_name = "store_comment_view"
           /\ done[c].postView.Comment = done[c].preView.Comment

\* a view was stored for a comment_uuid that no Comment has, beside a Comment
C18_Witness ==
    \E c \in Callers :
      /\ done[c].op = "store_comment_view" /\ done[c].status = "returned"
      /\ Matched(done[c]) = {}
      /\ done[c].preView.Comment # {}

\* the rows a call of this action writes when it succeeds, its LogRecord
\* included
RowsWritten(op) ==
    CASE op = "create_comment" -> 3
      [] op = "store_comment_view" -> 2
      [] OTHER -> 1

\* C19: with callers running concurrently, the committed tables hold for
\* every call either its LogRecord together with all its domain rows or
\* nothing of it; a caller reads of another caller's calls exactly what is
\* committed; and there are as many committed LogRecords as calls that
\* committed.
C19_ConcurrentCallsAtomic ==
    /\ \A k \in DOMAIN calls :
         calls[k].op \in {"create_comment", "store_comment_view"}
           => /\ Cardinality(RowsOf(k, db)) \in {0, RowsWritten(calls[k].op)}
              /\ (\E l \in db.DataLog : l.call = k) <=> k \in committedMut
              /\ (\E l \in db.DataLog : l.call = k) <=>
                   (\E r \in db.Comment \cup db.CommentView : r.call = k)
    /\ \A c \in Callers : \A k \in DOMAIN calls :
         calls[k].caller # c => RowsOf(k, View(c)) = RowsOf(k, db)
    /\ Cardinality(db.DataLog) =
         Cardinality({k \in DOMAIN calls : calls[k].kind = "action" /\ FullyCommitted(k)})

\* one caller is inside create_comment, its rows uncommitted, while a call
\* the other caller began later is already committed
C19_Witness ==
    \E c \in Callers :
      /\ stack[c] # << >>
      /\ Top(c).op = "create_comment" /\ Top(c).pc = "exit" /\ Top(c).exc = "none"
      /\ \E l \in db.DataLog : l.call > Top(c).id /\ calls[l.call].caller # c

====
